---- MODULE Spec2Model ----
(***************************************************************************)
(* A model of the retrieval pipeline of GENAI_BOT: the document chunker    *)
(* (document_processor.py), the persisted vector collection and its        *)
(* manager (vector_store.py), the question-answering engine and the        *)
(* system manager (rag_engine.py).                                         *)
(*                                                                         *)
(* Strings the code slices or strips (questions, document texts, answers)  *)
(* are sequences of tokens; a fixed literal of the code is one token.      *)
(***************************************************************************)
EXTENDS Integers, Sequences, FiniteSets, TLC

\* ---------------------------------------------------------------- bounds
\* largest number of records the persisted collection may reach
MaxRecs == 4
\* longest text the splitter is run on with the small chunk sizes
MaxTextLen == 6
\* largest number of files in a directory of several files
MaxFiles == 3

\* ------------------------------------------------------ program constants
CHUNK_SIZE == 500
CHUNK_OVERLAP == 50
TOP_K_RESULTS == 3
PREVIEW_LEN == 300

SUPPORTED_EXTENSIONS == {".pdf", ".txt", ".md", ".docx"}
OPENAI_API_KEY_VALUES == {"", "sk-key"}

\* Python's None, for fields that hold a string or None
None == "<None>"

\* the RAGManager instances
Mgrs == {"m1"}

\* ------------------------------------------------------------ text helpers
IsSpace(c) == c \in {" ", "\n", "\t"}

RECURSIVE LStrip(_)
LStrip(s) == IF s = <<>> THEN <<>>
             ELSE IF IsSpace(Head(s)) THEN LStrip(Tail(s)) ELSE s

RECURSIVE RStrip(_)
RStrip(s) == IF s = <<>> THEN <<>>
             ELSE IF IsSpace(s[Len(s)]) THEN RStrip(SubSeq(s, 1, Len(s) - 1)) ELSE s

\* str.strip()
Strip(s) == RStrip(LStrip(s))

\* s[:n]
Prefix(s, n) == SubSeq(s, 1, IF Len(s) < n THEN Len(s) ELSE n)

\* str(i) for the small positive integers the excerpt labels use
IntToStr(i) == CASE i = 1 -> "1" [] i = 2 -> "2" [] i = 3 -> "3" [] i = 4 -> "4"
                 [] i = 5 -> "5" [] i = 6 -> "6" [] i = 7 -> "7" [] i = 8 -> "8"
                 [] OTHER -> "9"

Min(a, b) == IF a < b THEN a ELSE b

\* ------------------------------------------------- the documents directory
TextShort == <<"h", "i">>
TextTwo == <<"a", " ", "b">>
TextBlank == <<" ", "\n">>
\* longer than the preview: PREVIEW_LEN times "x", then "y", "z"
TextLong == [i \in 1..(PREVIEW_LEN + 2) |-> IF i <= PREVIEW_LEN THEN "x" ELSE IF i = PREVIEW_LEN + 1 THEN "y" ELSE "z"]

\* A file: its name, its suffix, whether its loader raises, and the texts of the
\* Documents the loader returns (one per page for a PDF).
File(n, e, bad, ts) == [name |-> n, ext |-> e, loader_fails |-> bad, texts |-> ts]

DirEmpty == [exists |-> TRUE, files |-> <<>>]
DirMissing == [exists |-> FALSE, files |-> <<>>]
DirOne == [exists |-> TRUE, files |-> <<File("a.txt", ".txt", FALSE, <<TextShort>>)>>]
DirBlank == [exists |-> TRUE, files |-> <<File("w.txt", ".txt", FALSE, <<TextBlank>>)>>]
DirMixed == [exists |-> TRUE,
             files |-> <<File("b.md", ".md", FALSE, <<TextLong>>),
                         File("c.csv", ".csv", FALSE, <<TextShort>>),
                         File("d.pdf", ".pdf", TRUE, <<TextShort>>),
                         File("e.pdf", ".pdf", FALSE, <<TextTwo, TextShort>>)>>]

Directories == {DirEmpty, DirOne, DirMixed}

Doc(t, src) == [page_content |-> t, source |-> src]

\* ------------------------------------------------------------- the chunker
\* file_path.suffix.lower(), for the suffixes the directories hold
Lower(e) == CASE e = ".PDF" -> ".pdf" [] e = ".TXT" -> ".txt" [] e = ".MD" -> ".md"
              [] e = ".DOCX" -> ".docx" [] e = ".CSV" -> ".csv" [] OTHER -> e

\* DocumentProcessor.load_document: the Documents of one file; [] for an
\* unsupported suffix and for a loader that raises (caught and logged).
load_document(f) ==
    IF Lower(f.ext) \notin {".pdf", ".txt", ".md", ".docx"} THEN <<>>
    ELSE IF f.loader_fails THEN <<>>
    ELSE [i \in 1..Len(f.texts) |-> Doc(f.texts[i], f.name)]

\* the loop of load_documents_from_directory giving up at the first file whose
\* loader raises
RECURSIVE LoadFiles_stop_at_failure(_)
LoadFiles_stop_at_failure(fs) ==
    IF fs = <<>> THEN <<>>
    ELSE IF Lower(Head(fs).ext) \in SUPPORTED_EXTENSIONS /\ Head(fs).loader_fails THEN <<>>
    ELSE (IF Lower(Head(fs).ext) \in SUPPORTED_EXTENSIONS THEN load_document(Head(fs)) ELSE <<>>)
         \o LoadFiles_stop_at_failure(Tail(fs))

\* the loop of load_documents_from_directory over the files rglob yields
RECURSIVE LoadFiles(_)
LoadFiles(fs) ==
    IF fs = <<>> THEN <<>>
    ELSE (IF Lower(Head(fs).ext) \in SUPPORTED_EXTENSIONS THEN load_document(Head(fs)) ELSE <<>>)
         \o LoadFiles(Tail(fs))

\* DocumentProcessor.load_documents_from_directory
load_documents_from_directory(dir) ==
    IF ~dir.exists THEN <<>> ELSE LoadFiles(dir.files)

\* the separators without the empty one that cuts between any two characters
Separators_without_characters == <<<<"\n", "\n">>, <<"\n">>, <<" ">>>>

\* The separators the splitter is constructed with, coarsest first:
\* ["\n\n", "\n", " ", ""], each as its characters.
Separators == <<<<"\n", "\n">>, <<"\n">>, <<" ">>, <<>>>>

\* sep occurs in t at position i
OccursAt(t, sep, i) ==
    /\ i + Len(sep) - 1 <= Len(t)
    /\ \A j \in 1..Len(sep) : t[i + j - 1] = sep[j]

\* re.search(sep, t)
Contains(t, sep) == \E i \in 1..Len(t) : OccursAt(t, sep, i)

\* where re.split finds sep in t from position i on: leftmost first, no overlap
RECURSIVE Matches(_, _, _)
Matches(t, sep, i) ==
    LET at == {j \in i..Len(t) : OccursAt(t, sep, j)}
    IN  IF at = {} THEN <<>>
        ELSE LET first == CHOOSE j \in at : \A k \in at : j <= k
             IN  <<first>> \o Matches(t, sep, first + Len(sep))

\* _split_text_with_regex with keep_separator: the text before the first
\* separator, then each separator with the text that follows it; the empty
\* separator gives the characters; empty pieces are dropped.
SplitKeep(t, sep) ==
    IF sep = <<>> THEN [i \in 1..Len(t) |-> <<t[i]>>]
    ELSE LET ps == Matches(t, sep, 1)
             piece(k) == IF k = 0
                         THEN SubSeq(t, 1, IF ps = <<>> THEN Len(t) ELSE ps[1] - 1)
                         ELSE SubSeq(t, ps[k], IF k = Len(ps) THEN Len(t) ELSE ps[k + 1] - 1)
             all == [k \in 1..(Len(ps) + 1) |-> piece(k - 1)]
         IN  SelectSeq(all, LAMBDA x : x # <<>>)

RECURSIVE Flatten(_)
Flatten(pieces) == IF pieces = <<>> THEN <<>> ELSE Head(pieces) \o Flatten(Tail(pieces))

\* _join_docs keeping the whitespace at the ends of the joined text
JoinDocs_unstripped(current) ==
    LET text == Flatten(current) IN IF text = <<>> THEN <<>> ELSE <<text>>

\* _join_docs: the pieces joined, stripped, and dropped when nothing is left
JoinDocs(current) ==
    LET text == Strip(Flatten(current)) IN IF text = <<>> THEN <<>> ELSE <<text>>

\* the while loop of _merge_splits: pieces leave the front of the current chunk
\* until what stays is within the overlap and the next piece fits
RECURSIVE PopFront(_, _, _, _, _)
PopFront(current, total, len, size, overlap) ==
    IF total > overlap \/ (total + len > size /\ total > 0)
    THEN PopFront(Tail(current), total - Len(Head(current)), len, size, overlap)
    ELSE [current |-> current, total |-> total]

\* _merge_splits (the separator between pieces is empty, as they keep theirs):
\* pieces are gathered while they fit in chunk_size; a full chunk is emitted
\* and the next begins with its last chunk_overlap characters' worth of pieces.
RECURSIVE MergeSplits(_, _, _, _, _)
MergeSplits(splits, current, total, size, overlap) ==
    IF splits = <<>> THEN JoinDocs(current)
    ELSE LET d == Head(splits)
         IN  IF total + Len(d) > size /\ current # <<>>
             THEN LET kept == PopFront(current, total, Len(d), size, overlap)
                  IN  JoinDocs(current)
                      \o MergeSplits(Tail(splits), Append(kept.current, d),
                                     kept.total + Len(d), size, overlap)
             ELSE MergeSplits(Tail(splits), Append(current, d), total + Len(d),
                              size, overlap)

\* the separator _split_text picks: the first of seps that is empty or occurs
\* in the text (0 when there is none)
RECURSIVE PickSeparator(_, _, _)
PickSeparator(t, seps, i) ==
    IF i > Len(seps) THEN 0
    ELSE IF seps[i] = <<>> \/ Contains(t, seps[i]) THEN i
    ELSE PickSeparator(t, seps, i + 1)

\* RecursiveCharacterTextSplitter._split_text: the text is split at the picked
\* separator; pieces shorter than chunk_size are merged, a piece that is not is
\* split again with the finer separators, or kept whole when none is left.
RECURSIVE split_text(_, _, _, _)
RECURSIVE WalkSplits(_, _, _, _, _)
WalkSplits(splits, good, new_separators, size, overlap) ==
    LET merged == IF good = <<>> THEN <<>> ELSE MergeSplits(good, <<>>, 0, size, overlap)
    IN  IF splits = <<>> THEN merged
        ELSE LET s == Head(splits)
             IN  IF Len(s) < size
                 THEN WalkSplits(Tail(splits), Append(good, s), new_separators, size, overlap)
                 ELSE merged
                      \o (IF new_separators = <<>> THEN <<s>>
                          ELSE split_text(s, new_separators, size, overlap))
                      \o WalkSplits(Tail(splits), <<>>, new_separators, size, overlap)

split_text(t, seps, size, overlap) ==
    LET i == PickSeparator(t, seps, 1)
        separator == IF i = 0 THEN seps[Len(seps)] ELSE seps[i]
        new_separators == IF i = 0 \/ seps[i] = <<>> THEN <<>>
                          ELSE SubSeq(seps, i + 1, Len(seps))
    IN  WalkSplits(SplitKeep(t, separator), <<>>, new_separators, size, overlap)

\* the splitter of a DocumentProcessor(chunk_size, chunk_overlap) on one text
SplitTextSized(t, size, overlap) == split_text(t, Separators, size, overlap)

\* The splitter of DocumentProcessor() on one text. A text within chunk_size
\* goes through split_text as one chunk: its pieces all fit, so they are merged
\* back, stripped of surrounding whitespace and dropped when nothing is left.
SplitText(t) ==
    IF Len(t) <= CHUNK_SIZE
    THEN (IF Strip(t) = <<>> THEN <<>> ELSE <<Strip(t)>>)
    ELSE SplitTextSized(t, CHUNK_SIZE, CHUNK_OVERLAP)

RECURSIVE SplitDocuments(_)
SplitDocuments(docs) ==
    IF docs = <<>> THEN <<>>
    ELSE LET d == Head(docs)
             parts == SplitText(d.page_content)
         IN  [i \in 1..Len(parts) |-> Doc(parts[i], d.source)] \o SplitDocuments(Tail(docs))

\* DocumentProcessor.chunk_documents
chunk_documents(docs) == IF docs = <<>> THEN <<>> ELSE SplitDocuments(docs)

\* split_documents of a DocumentProcessor(chunk_size, chunk_overlap)
RECURSIVE SplitDocumentsSized(_, _, _)
SplitDocumentsSized(docs, size, overlap) ==
    IF docs = <<>> THEN <<>>
    ELSE LET d == Head(docs)
             parts == SplitTextSized(d.page_content, size, overlap)
         IN  [i \in 1..Len(parts) |-> Doc(parts[i], d.source)]
             \o SplitDocumentsSized(Tail(docs), size, overlap)

\* chunk_documents of a DocumentProcessor(chunk_size, chunk_overlap)
chunk_documents_sized(docs, size, overlap) ==
    IF docs = <<>> THEN <<>> ELSE SplitDocumentsSized(docs, size, overlap)

\* DocumentProcessor.process_documents
process_documents(dir) ==
    LET documents == load_documents_from_directory(dir)
    IN  IF documents = <<>> THEN <<>> ELSE chunk_documents(documents)

\* process_documents of a DocumentProcessor(chunk_size, chunk_overlap)
process_documents_sized(dir, size, overlap) ==
    LET documents == load_documents_from_directory(dir)
    IN  IF documents = <<>> THEN <<>> ELSE chunk_documents_sized(documents, size, overlap)

\* ------------------------------------------------------- the vector index
\* The distance the index gives a fragment for a question (lower is nearer): a
\* fixed function of the two texts, as the embedding model is deterministic.
Distance(q, t) ==
    LET d == Len(q) - Len(t) IN (IF d < 0 THEN 0 - d ELSE d) % 7

\* position of the nearest record among those not yet taken (first on a tie)
Nearest(recs, q, taken) ==
    CHOOSE i \in (1..Len(recs)) \ taken :
        \A j \in (1..Len(recs)) \ taken :
            \/ Distance(q, recs[i].page_content) < Distance(q, recs[j].page_content)
            \/ /\ Distance(q, recs[i].page_content) = Distance(q, recs[j].page_content)
               /\ i <= j

RECURSIVE TopK(_, _, _, _)
TopK(recs, q, k, taken) ==
    IF k = 0 \/ Cardinality(taken) = Len(recs) THEN <<>>
    ELSE LET i == Nearest(recs, q, taken)
         IN  <<[doc |-> recs[i], score |-> Distance(q, recs[i].page_content)]>>
             \o TopK(recs, q, k - 1, taken \cup {i})

\* Chroma.similarity_search_with_score on a readable collection: up to k
\* (Document, score) pairs, best first.
ChromaSearch(recs, q, k) == TopK(recs, q, k, {})

Docs(pairs) == [i \in 1..Len(pairs) |-> pairs[i].doc]
\* the scores turned into similarities instead of being passed on
Scores_as_similarity(pairs) == [i \in 1..Len(pairs) |-> 7 - pairs[i].score]
Scores(pairs) == [i \in 1..Len(pairs) |-> pairs[i].score]

\* ------------------------------------------------------------------- state
VARIABLES
    docsDir,   \* the documents directory (config.DOCUMENTS_DIR)
    apiKey,    \* config.OPENAI_API_KEY, read from the environment at start
    disk,      \* the persisted collection config.COLLECTION_NAME in config.VECTOR_DB_DIR
    mgr,       \* the RAGManager instances, each with its VectorStoreManager
    everOk,    \* history: some initialize of this instance has returned True
    trail,     \* history of the calls made on a VectorStoreManager directly
    session,   \* st.session_state of each browser session of the app
    last       \* observation: the last call, what it returned and which calls it made

vars == <<docsDir, apiKey, disk, mgr, everOk, trail, session, last>>

\* A Chroma handle (VectorStoreManager.vectorstore, or the one a QA chain's
\* retriever holds) is "none", "live" (it names the collection the storage holds
\* now) or "stale" (its collection was deleted after the handle was made).
NoEngine == [exists |-> FALSE, use_openai |-> FALSE, llm |-> FALSE, qa_chain |-> "none"]

\* a VectorStoreManager.__init__ that opens the persisted collection itself
NewManager_opens_collection ==
    [vectorstore |-> "live", rag_engine |-> NoEngine, is_initialized |-> FALSE]

\* RAGManager.__init__ with VectorStoreManager.__init__
NewManager == [vectorstore |-> "none", rag_engine |-> NoEngine, is_initialized |-> FALSE]

NoDisk == [exists |-> FALSE, recs |-> <<>>]

\* initialize_session_state: what a new browser session holds
NewSession == [rag_manager |-> FALSE, initialized |-> FALSE, chat_history |-> <<>>]

\* no browser session is open
NoSessions == <<>>

\* Nothing has been called yet: no create_vectorstore has returned (created is
\* <<>>, else <<len(documents)>> of the latest one not followed by a deletion),
\* no delete_collection has returned since the latest create (deleted), and no
\* manager has called create or load since it was constructed or since its
\* latest delete_collection returned (opened).
NoTrail == [created |-> <<>>, deleted |-> FALSE, opened |-> [m \in Mgrs |-> FALSE]]

\* The backend faults a call can meet, each at one point of the code.
InitFaults == {"chunk", "delete", "load_open", "load_count", "create_open",
               "create_embed", "llm_init", "setup"}
QueryFaults == {"search", "chain_search", "llm_call"}

\* str(e) of the exception a fault raises
Msg(f) == CASE f = "chunk" -> "cannot read documents"
            [] f = "delete" -> "cannot delete collection"
            [] f = "load_open" -> "storage unreadable"
            [] f = "load_count" -> "count failed"
            [] f = "create_open" -> "storage unwritable"
            [] f = "create_embed" -> "embedding failed"
            [] f = "llm_init" -> "bad llm settings"
            [] f = "setup" -> "chain setup failed"
            [] f = "search" -> "search failed"
            [] f = "chain_search" -> "retriever failed"
            [] f = "llm_call" -> "generation failed"
            [] f = "stale" -> "collection does not exist"
            [] OTHER -> "empty documents list"

\* a step's context: the storage, the managers, the calls made so far, the
\* faults met so far, what the engine's retrieval returned (<<>> while the
\* engine has retrieved nothing, <<list>> once it has) and the text the
\* backend returned (<<>> while it has returned none, <<text>> once it has)
Ctx(d, ms) ==
    [disk |-> d, mgr |-> ms, calls |-> <<>>, hit |-> {}, retrieval |-> <<>>,
     generated |-> <<>>]
Call(c, name) == [c EXCEPT !.calls = Append(@, name)]
Hit(c, f) == [c EXCEPT !.hit = @ \cup {f}]
\* what a function hands back: the context after it, the exception it raised
\* (None when it returned) and its value
Out(c, e, v) == [c |-> c, exc |-> e, val |-> v]

\* Dropping the collection invalidates every handle made for it.
Invalidate(ms) ==
    [m \in DOMAIN ms |->
        [ms[m] EXCEPT !.vectorstore = IF @ = "live" THEN "stale" ELSE @,
                      !.rag_engine.qa_chain = IF @ = "live" THEN "stale" ELSE @]]

\* ------------------------------------------------------ VectorStoreManager
\* VectorStoreManager.delete_collection
delete_collection(c0, m, F) ==
    IF c0.mgr[m].vectorstore = "none" THEN Out(c0, None, None)
    ELSE LET c == Call(c0, "delete")
         IN  IF "delete" \in F THEN Out(Hit(c, "delete"), Msg("delete"), None)
             ELSE IF ~c.disk.exists THEN Out(Hit(c, "stale"), Msg("stale"), None)
             ELSE Out([c EXCEPT !.disk = NoDisk,
                                !.mgr = [Invalidate(c.mgr) EXCEPT ![m].vectorstore = "none"]],
                      None, None)

\* VectorStoreManager.create_vectorstore: Chroma.from_documents opens the named
\* collection, creating it when the storage has none, and adds one record per
\* document under a fresh id.
create_vectorstore(c0, m, documents, F) ==
    IF documents = <<>> THEN Out(c0, Msg("empty"), None)
    ELSE LET c == Call(c0, "create")
         IN  IF "create_open" \in F THEN Out(Hit(c, "create_open"), Msg("create_open"), None)
             ELSE LET opened == [c EXCEPT !.disk.exists = TRUE]
                  IN  IF "create_embed" \in F
                      THEN Out(Hit(opened, "create_embed"), Msg("create_embed"), None)
                      ELSE Out([opened EXCEPT !.disk.recs = @ \o documents,
                                              !.mgr[m].vectorstore = "live"],
                               None, "live")

\* load_vectorstore reporting every collection as empty
load_vectorstore_never_found(c0, m, F) ==
    LET c == Call(c0, "load")
    IN  IF "load_open" \in F THEN Out(Hit(c, "load_open"), None, FALSE)
        ELSE LET opened == [c EXCEPT !.disk.exists = TRUE, !.mgr[m].vectorstore = "live"]
             IN  IF "load_count" \in F THEN Out(Hit(opened, "load_count"), None, FALSE)
                 ELSE Out(opened, None, FALSE)

\* VectorStoreManager.load_vectorstore: val is TRUE when a store is returned and
\* FALSE when None is. Chroma(...) opens the named collection, creating it empty
\* when the storage has none.
load_vectorstore(c0, m, F) ==
    LET c == Call(c0, "load")
    IN  IF "load_open" \in F THEN Out(Hit(c, "load_open"), None, FALSE)
        ELSE LET opened == [c EXCEPT !.disk.exists = TRUE, !.mgr[m].vectorstore = "live"]
             IN  IF "load_count" \in F THEN Out(Hit(opened, "load_count"), None, FALSE)
                 ELSE IF Len(opened.disk.recs) = 0 THEN Out(opened, None, FALSE)
                 ELSE Out(opened, None, TRUE)

\* VectorStoreManager.similarity_search: val is the list of documents returned
similarity_search(c0, m, query, k, F) ==
    IF c0.mgr[m].vectorstore = "none" THEN Out(c0, None, <<>>)
    ELSE LET c == Call(c0, "search")
         IN  IF "search" \in F THEN Out(Hit(c, "search"), None, <<>>)
             ELSE IF c.mgr[m].vectorstore = "stale" THEN Out(Hit(c, "stale"), None, <<>>)
             ELSE Out(c, None, Docs(ChromaSearch(c.disk.recs, query, k)))

\* VectorStoreManager.similarity_search_with_score: val is the list returned
similarity_search_with_score(c0, m, query, k, F) ==
    IF c0.mgr[m].vectorstore = "none" THEN Out(c0, None, <<>>)
    ELSE LET c == Call(c0, "search")
         IN  IF "search" \in F THEN Out(Hit(c, "search"), None, <<>>)
             ELSE IF c.mgr[m].vectorstore = "stale" THEN Out(Hit(c, "stale"), None, <<>>)
             ELSE Out(c, None, ChromaSearch(c.disk.recs, query, k))

\* VectorStoreManager.get_collection_count
get_collection_count(d, ms, m) ==
    IF ms[m].vectorstore = "none" THEN 0
    ELSE IF ms[m].vectorstore = "stale" THEN 0
    ELSE Len(d.recs)

\* --------------------------------------------------------------- RAGEngine
\* a query's result dictionary; has_scores tells whether it has the key
\* "relevance_scores"
Result(a, srcs, hs, scs, e) ==
    [answer |-> a, source_documents |-> srcs, has_scores |-> hs,
     relevance_scores |-> scs, error |-> e]

NoResult == Result(<<>>, <<>>, FALSE, <<>>, None)

EMPTY_QUESTION_ANSWER == <<"Please provide a valid question.">>
NO_DOCS_ANSWER ==
    <<"I couldn't find any relevant information in the knowledge base for your question.">>
NOT_INITIALIZED_ANSWER == <<"RAG system is not initialized. Please initialize first.">>
FALLBACK_PREAMBLE == <<"Based on the knowledge base, here are the most relevant excerpts:\n\n">>
FALLBACK_FOOTER ==
    <<"\n*Note: Set up an OpenAI API key in the .env file to get AI-generated answers.*">>
ERROR_PREFIX == <<"An error occurred while processing your question: ">>

\* the texts the generative backend may answer with
LLMTexts == {"generated answer A", "generated answer B"}

\* RAGEngine.__init__ building the backend client whether or not a key is set
NewEngine_client_without_key(key, F) ==
    [exists |-> TRUE, use_openai |-> key # "",
     llm |-> "llm_init" \notin F, qa_chain |-> "none"]

\* RAGEngine.__init__ with _initialize_openai_llm, which catches what ChatOpenAI raises
NewEngine(key, F) ==
    LET use_openai == key # ""
    IN  [exists |-> TRUE, use_openai |-> use_openai,
         llm |-> use_openai /\ "llm_init" \notin F, qa_chain |-> "none"]

\* RAGEngine.setup_qa_chain: val is its return value
setup_qa_chain(c, m, F) ==
    IF c.mgr[m].vectorstore = "none" THEN Out(c, None, FALSE)
    ELSE IF "setup" \in F THEN Out(Hit(c, "setup"), Msg("setup"), None)
    ELSE IF c.mgr[m].rag_engine.llm
         THEN Out([c EXCEPT !.mgr[m].rag_engine.qa_chain = c.mgr[m].vectorstore], None, TRUE)
         ELSE Out(c, None, TRUE)

\* an excerpt block with the whole text, not its first PREVIEW_LEN characters
ExcerptBlock_untruncated(i, doc) ==
    <<"**Excerpt ", IntToStr(i), ":**\n">> \o doc.page_content \o <<"...\n\n">>

\* one "**Excerpt i:**\n{content}...\n\n" block
ExcerptBlock(i, doc) ==
    <<"**Excerpt ", IntToStr(i), ":**\n">> \o Prefix(doc.page_content, PREVIEW_LEN)
        \o <<"...\n\n">>

RECURSIVE ExcerptBlocks(_, _)
ExcerptBlocks(documents, i) ==
    IF i > Len(documents) THEN <<>>
    ELSE ExcerptBlock(i, documents[i]) \o ExcerptBlocks(documents, i + 1)

\* RAGEngine._generate_fallback_answer
generate_fallback_answer(question, documents) ==
    FALLBACK_PREAMBLE \o ExcerptBlocks(documents, 1) \o FALLBACK_FOOTER

\* self.qa_chain.invoke({"query": question}): the chain's retriever searches
\* through the handle it was set up with, then the backend is called once.
\* val is [result, source_documents].
qa_chain_invoke(c0, m, question, F, text) ==
    LET c == Call(Call(c0, "invoke"), "chain_search")
    IN  IF "chain_search" \in F THEN Out(Hit(c, "chain_search"), Msg("chain_search"), None)
        ELSE IF c.mgr[m].rag_engine.qa_chain = "stale" THEN Out(Hit(c, "stale"), Msg("stale"), None)
        ELSE LET c1 == Call(c, "llm")
             IN  IF "llm_call" \in F THEN Out(Hit(c1, "llm_call"), Msg("llm_call"), None)
                 ELSE Out([c1 EXCEPT !.generated = <<text>>], None,
                          [result |-> <<text>>,
                           source_documents |->
                               Docs(ChromaSearch(c1.disk.recs, question, TOP_K_RESULTS))])

\* the generative branch of RAGEngine.query asking the chain again after a failure
query_generative_retry(c, m, question, F, text) ==
    LET first == qa_chain_invoke(c, m, question, F, text)
    IN  IF first.exc = None THEN first
        ELSE qa_chain_invoke(first.c, m, question, {}, text)

\* the generative branch of RAGEngine.query: response = self.qa_chain.invoke(...)
query_generative(c, m, question, F, text) == qa_chain_invoke(c, m, question, F, text)

\* the try block without the early return on an empty retrieval
engine_query_body_no_empty_check(c0, m, question, F, text) ==
    LET found == similarity_search_with_score(c0, m, question, TOP_K_RESULTS, F)
        relevant_docs == found.val
        c == [found.c EXCEPT !.retrieval = <<relevant_docs>>]
        documents == Docs(relevant_docs)
    IN  Out(c, None, Result(generate_fallback_answer(question, documents), documents,
                            TRUE, Scores(relevant_docs), None))

\* the try block of RAGEngine.query
engine_query_body(c0, m, question, F, text) ==
    LET found == similarity_search_with_score(c0, m, question, TOP_K_RESULTS, F)
        relevant_docs == found.val
        c == [found.c EXCEPT !.retrieval = <<relevant_docs>>]
    IN  IF relevant_docs = <<>>
        THEN Out(c, None, Result(NO_DOCS_ANSWER, <<>>, FALSE, <<>>, "No relevant documents found"))
        ELSE LET documents == Docs(relevant_docs)
                 scores == Scores(relevant_docs)
                 e == c.mgr[m].rag_engine
             IN  IF e.qa_chain # "none" /\ e.llm
                 THEN LET response == query_generative(c, m, question, F, text)
                      IN  IF response.exc # None THEN Out(response.c, response.exc, None)
                          ELSE Out(response.c, None,
                                   Result(response.val.result, response.val.source_documents,
                                          TRUE, scores, None))
                 ELSE Out(c, None,
                          Result(generate_fallback_answer(question, documents), documents,
                                 TRUE, scores, None))

\* the except clause of RAGEngine.query
engine_query_except(out) ==
    IF out.exc = None THEN out
    ELSE Out(out.c, None, Result(ERROR_PREFIX \o <<out.exc>>, <<>>, FALSE, <<>>, out.exc))

\* the blank check without the strip()
IsBlank_no_strip(question) == question = <<>>

\* the blank check of RAGEngine.query
IsBlank(question) == question = <<>> \/ Strip(question) = <<>>

\* RAGEngine.query
engine_query(c, m, question, F, text) ==
    IF IsBlank(question)
    THEN Out(c, None, Result(EMPTY_QUESTION_ANSWER, <<>>, FALSE, <<>>, "Empty question"))
    ELSE engine_query_except(engine_query_body(c, m, question, F, text))

\* -------------------------------------------------------------- RAGManager
\* the engine part of RAGManager.initialize; val is the value returned
init_engine(c0, m, key, F) ==
    LET c == [Call(c0, "engine") EXCEPT !.mgr[m].rag_engine = NewEngine(key, F)]
        s == setup_qa_chain(IF "llm_init" \in F /\ key # "" THEN Hit(c, "llm_init") ELSE c, m, F)
    IN  IF s.exc # None THEN s
        ELSE Out([s.c EXCEPT !.mgr[m].is_initialized = TRUE], None, TRUE)

\* init_build deleting the old collection before it looks at the chunks
init_build_delete_first(c0, m, dir, del, key, F) ==
    LET c == Call(c0, "chunk")
    IN  IF "chunk" \in F THEN Out(Hit(c, "chunk"), Msg("chunk"), None)
        ELSE LET chunks == process_documents(dir)
                 d == IF del THEN delete_collection(c, m, F) ELSE Out(c, None, None)
             IN  IF chunks = <<>> THEN Out(d.c, None, FALSE)
                 ELSE LET made == create_vectorstore(d.c, m, chunks, F)
                      IN  IF made.exc # None THEN made
                          ELSE init_engine(made.c, m, key, F)

\* chunk and create, the part both paths of RAGManager.initialize share up to
\* the deletion; val is FALSE when initialize returns False here
init_build(c0, m, dir, del, key, F) ==
    LET c == Call(c0, "chunk")
    IN  IF "chunk" \in F THEN Out(Hit(c, "chunk"), Msg("chunk"), None)
        ELSE LET chunks == process_documents(dir)
             IN  IF chunks = <<>> THEN Out(c, None, FALSE)
                 ELSE LET d == IF del THEN delete_collection(c, m, F) ELSE Out(c, None, None)
                          \* try: delete_collection() except: pass
                          made == create_vectorstore(d.c, m, chunks, F)
                      IN  IF made.exc # None THEN made
                          ELSE init_engine(made.c, m, key, F)

\* the try block of RAGManager.initialize
initialize_body(c, m, force_rebuild, dir, key, F) ==
    IF force_rebuild THEN init_build(c, m, dir, TRUE, key, F)
    ELSE LET l == load_vectorstore(c, m, F)
         IN  IF ~l.val THEN init_build(l.c, m, dir, FALSE, key, F)
             ELSE init_engine(l.c, m, key, F)

\* RAGManager.initialize without its except clause: the exception goes on
initialize_except_missing(out) == out

\* the except clause of RAGManager.initialize
initialize_except(out) == IF out.exc = None THEN out ELSE Out(out.c, None, FALSE)

\* RAGManager.initialize
initialize(c, m, force_rebuild, dir, key, F) ==
    initialize_except(initialize_body(c, m, force_rebuild, dir, key, F))

NOT_INITIALIZED_RESULT == Result(NOT_INITIALIZED_ANSWER, <<>>, FALSE, <<>>, "Not initialized")

\* RAGManager.query testing the engine alone, not the is_initialized flag
manager_query_engine_only(c, m, question, F, text) ==
    IF ~c.mgr[m].rag_engine.exists
    THEN Out(c, None, NOT_INITIALIZED_RESULT)
    ELSE engine_query(c, m, question, F, text)

\* RAGManager.query
manager_query(c, m, question, F, text) ==
    IF ~c.mgr[m].is_initialized \/ ~c.mgr[m].rag_engine.exists
    THEN Out(c, None, NOT_INITIALIZED_RESULT)
    ELSE engine_query(c, m, question, F, text)

\* ----------------------------------------------------------------- actions
\* the questions asked: empty, whitespace only, and two that are not blank
Questions == {<<>>, <<" ", "\t">>, <<"a">>, <<" ", "a", "b", "c">>}

\* The faults one initialize can meet together: one while deleting or loading
\* (both are swallowed), then either one that ends the call or those of the
\* engine's construction and setup.
InitFaultPlans(force_rebuild) ==
    LET first == IF force_rebuild THEN {{}, {"delete"}}
                 ELSE {{}, {"load_open"}, {"load_count"}}
        rest == {{}, {"chunk"}, {"create_open"}, {"create_embed"},
                 {"llm_init"}, {"setup"}, {"llm_init", "setup"}}
    IN  {a \cup b : a \in first, b \in rest}

\* A query meets at most one fault: each ends the retrieval or the call.
QueryFaultPlans == {{}} \cup {{f} : f \in QueryFaults}

\* what `last` records of a call
Observed(op, m, force, q, out) ==
    [op |-> op, m |-> m, force |-> force, question |-> q,
     ret |-> IF op = "initialize" /\ out.exc = None THEN out.val ELSE FALSE,
     result |-> IF op = "query" /\ out.exc = None THEN out.val ELSE NoResult,
     calls |-> out.c.calls, hit |-> out.c.hit, retrieval |-> out.c.retrieval,
     generated |-> out.c.generated,
     raised |-> out.exc # None]

Idle(op) == Observed(op, "m1", FALSE, <<>>, Out(Ctx(NoDisk, <<>>), None, FALSE))

Init ==
    /\ docsDir \in Directories
    /\ apiKey \in OPENAI_API_KEY_VALUES
    /\ disk = NoDisk
    /\ mgr = [m \in Mgrs |-> NewManager]
    /\ everOk = [m \in Mgrs |-> FALSE]
    /\ trail = NoTrail
    /\ session = NoSessions
    /\ last = Idle("start")

\* a caller runs manager.initialize(force_rebuild)
Initialize(m, force_rebuild, F) ==
    \E out \in {initialize(Ctx(disk, mgr), m, force_rebuild, docsDir, apiKey, F)} :
        /\ F \subseteq out.c.hit         \* every fault of the plan is met
        /\ Len(out.c.disk.recs) <= MaxRecs
        /\ disk' = out.c.disk
        /\ mgr' = out.c.mgr
        /\ everOk' = [everOk EXCEPT ![m] = @ \/ (out.exc = None /\ out.val)]
        /\ last' = Observed("initialize", m, force_rebuild, <<>>, out)
        /\ UNCHANGED <<docsDir, apiKey, trail, session>>

\* a caller runs manager.query(question)
Query(m, question, F, text) ==
    \E out \in {manager_query(Ctx(disk, mgr), m, question, F, text)} :
        /\ F \subseteq out.c.hit         \* every fault of the plan is met
        /\ disk' = out.c.disk
        /\ mgr' = out.c.mgr
        /\ last' = Observed("query", m, FALSE, question, out)
        /\ UNCHANGED <<docsDir, apiKey, everOk, trail, session>>

\* the process (or the session) starts again: a new RAGManager() on the same storage
Restart(m) ==
    /\ mgr' = [mgr EXCEPT ![m] = NewManager]
    /\ everOk' = [everOk EXCEPT ![m] = FALSE]
    /\ last' = Idle("restart")
    /\ UNCHANGED <<docsDir, apiKey, disk, trail, session>>

\* the user changes the files under the documents directory
EditDocuments(d) ==
    /\ d # docsDir
    /\ docsDir' = d
    /\ last' = Idle("edit")
    /\ UNCHANGED <<apiKey, disk, mgr, everOk, trail, session>>

Next ==
    \/ \E m \in Mgrs, b \in BOOLEAN : \E F \in InitFaultPlans(b) : Initialize(m, b, F)
    \/ \E m \in Mgrs, q \in Questions, F \in QueryFaultPlans, t \in LLMTexts :
           Query(m, q, F, t)
    \/ \E m \in Mgrs : Restart(m)
    \/ \E d \in Directories : EditDocuments(d)

Spec == Init /\ [][Next]_vars

\* ------------------------------------ a VectorStoreManager driven directly
\* A script that calls the VectorStoreManager's methods itself, as
\* quick_start.test_vector_store and the module's own __main__ do. Only the
\* vectorstore field of mgr[m] is used.

\* the lists handed to create_vectorstore: what the chunker makes of each
\* directory, the empty list among them
DocLists == {process_documents(d) : d \in Directories}

\* the k of a search
SearchKs == {1, TOP_K_RESULTS}

\* what `last` records of a call on the VectorStoreManager: found is
\* load_vectorstore returning a store, results the list a search returned,
\* count the number get_collection_count returned
VsmObserved(op, m, docs, q, k, out) ==
    [op |-> op, m |-> m, docs |-> docs, question |-> q, k |-> k,
     found |-> IF op = "load" /\ out.exc = None THEN out.val ELSE FALSE,
     results |-> IF op \in {"search", "search_with_score"} /\ out.exc = None
                 THEN out.val ELSE <<>>,
     count |-> IF op = "count" /\ out.exc = None THEN out.val ELSE 0,
     calls |-> out.c.calls, hit |-> out.c.hit,
     raised |-> out.exc # None, error |-> out.exc]

VsmIdle(op) == VsmObserved(op, "m1", <<>>, <<>>, 0, Out(Ctx(NoDisk, <<>>), None, FALSE))

VsmInit ==
    /\ docsDir = DirEmpty
    /\ apiKey = ""
    /\ disk = NoDisk
    /\ mgr = [m \in Mgrs |-> NewManager]
    /\ everOk = [m \in Mgrs |-> FALSE]
    /\ trail = NoTrail
    /\ session = NoSessions
    /\ last = VsmIdle("start")

\* manager.create_vectorstore(documents)
VsmCreate(m, documents, F) ==
    \E out \in {create_vectorstore(Ctx(disk, mgr), m, documents, F)} :
        /\ F \subseteq out.c.hit
        /\ Len(out.c.disk.recs) <= MaxRecs
        /\ disk' = out.c.disk
        /\ mgr' = out.c.mgr
        /\ trail' = IF out.c.calls = <<>> THEN trail
                    ELSE [created |-> IF out.exc = None THEN <<Len(documents)>>
                                      ELSE trail.created,
                          deleted |-> FALSE,
                          opened |-> [trail.opened EXCEPT ![m] = TRUE]]
        /\ last' = VsmObserved("create", m, documents, <<>>, 0, out)
        /\ UNCHANGED <<docsDir, apiKey, everOk, session>>

\* manager.load_vectorstore()
VsmLoad(m, F) ==
    \E out \in {load_vectorstore(Ctx(disk, mgr), m, F)} :
        /\ F \subseteq out.c.hit
        /\ disk' = out.c.disk
        /\ mgr' = out.c.mgr
        /\ trail' = [trail EXCEPT !.opened[m] = TRUE]
        /\ last' = VsmObserved("load", m, <<>>, <<>>, 0, out)
        /\ UNCHANGED <<docsDir, apiKey, everOk, session>>

\* manager.delete_collection()
VsmDelete(m, F) ==
    \E out \in {delete_collection(Ctx(disk, mgr), m, F)} :
        /\ F \subseteq out.c.hit
        /\ disk' = out.c.disk
        /\ mgr' = out.c.mgr
        /\ trail' = IF out.exc # None THEN trail
                    ELSE [created |-> <<>>, deleted |-> TRUE,
                          opened |-> [trail.opened EXCEPT ![m] = FALSE]]
        /\ last' = VsmObserved("delete", m, <<>>, <<>>, 0, out)
        /\ UNCHANGED <<docsDir, apiKey, everOk, session>>

\* manager.similarity_search(query, k)
VsmSearch(m, query, k, F) ==
    \E out \in {similarity_search(Ctx(disk, mgr), m, query, k, F)} :
        /\ F \subseteq out.c.hit
        /\ disk' = out.c.disk
        /\ mgr' = out.c.mgr
        /\ last' = VsmObserved("search", m, <<>>, query, k, out)
        /\ UNCHANGED <<docsDir, apiKey, everOk, trail, session>>

\* manager.similarity_search_with_score(query, k)
VsmSearchWithScore(m, query, k, F) ==
    \E out \in {similarity_search_with_score(Ctx(disk, mgr), m, query, k, F)} :
        /\ F \subseteq out.c.hit
        /\ disk' = out.c.disk
        /\ mgr' = out.c.mgr
        /\ last' = VsmObserved("search_with_score", m, <<>>, query, k, out)
        /\ UNCHANGED <<docsDir, apiKey, everOk, trail, session>>

\* manager.get_collection_count()
VsmCount(m) ==
    /\ last' = VsmObserved("count", m, <<>>, <<>>, 0,
                           Out(Ctx(disk, mgr), None, get_collection_count(disk, mgr, m)))
    /\ UNCHANGED <<docsDir, apiKey, disk, mgr, everOk, trail, session>>

\* the script ends and another starts: a new VectorStoreManager() on the same storage
VsmRestart(m) ==
    /\ mgr' = [mgr EXCEPT ![m] = NewManager]
    /\ trail' = [trail EXCEPT !.opened[m] = FALSE]
    /\ last' = VsmIdle("restart")
    /\ UNCHANGED <<docsDir, apiKey, disk, everOk, session>>

VsmNext ==
    \/ \E m \in Mgrs, ds \in DocLists, F \in {{}, {"create_open"}, {"create_embed"}} :
           VsmCreate(m, ds, F)
    \/ \E m \in Mgrs, F \in {{}, {"load_open"}, {"load_count"}} : VsmLoad(m, F)
    \/ \E m \in Mgrs, F \in {{}, {"delete"}} : VsmDelete(m, F)
    \/ \E m \in Mgrs, q \in Questions, k \in SearchKs, F \in {{}, {"search"}} :
           VsmSearch(m, q, k, F)
    \/ \E m \in Mgrs, q \in Questions, k \in SearchKs, F \in {{}, {"search"}} :
           VsmSearchWithScore(m, q, k, F)
    \/ \E m \in Mgrs : VsmCount(m)
    \/ \E m \in Mgrs : VsmRestart(m)

VsmSpec == VsmInit /\ [][VsmNext]_vars

\* ------------------------------------- a DocumentProcessor driven directly
\* A script that makes a DocumentProcessor and runs process_documents on a
\* directory, as quick_start.test_document_processing and RAGManager do. Only
\* docsDir and last are used.

\* the characters of the texts: a letter, a space and a line break
Alphabet == {"a", " ", "\n"}

\* every text of up to MaxTextLen characters
Texts == UNION {[1..n -> Alphabet] : n \in 0..MaxTextLen}

\* c repeated n times
Rep(c, n) == [i \in 1..n |-> c]

\* a text of paragraphs, lines and words far longer than the default chunk_size
TextPaged ==
    Rep("x", 300) \o <<"\n", "\n">> \o Rep("y", 200) \o <<" ">> \o Rep("z", 200)
        \o <<" ">> \o Rep("w", 200) \o <<"\n">> \o Rep("v", 300)

\* the files a directory is made of: one that loads, one whose loader raises,
\* one with an unsupported suffix, one with an upper-case suffix and two pages,
\* one with nothing but whitespace, one unsupported whose loader would raise
FileUniverse ==
    {File("a.txt", ".txt", FALSE, <<TextShort>>),
     File("b.md", ".md", TRUE, <<TextTwo>>),
     File("c.csv", ".csv", FALSE, <<TextShort>>),
     File("d.PDF", ".PDF", FALSE, <<TextTwo, TextShort>>),
     File("e.docx", ".docx", FALSE, <<TextBlank>>),
     File("f.exe", ".exe", TRUE, <<TextTwo>>)}

\* the files of a directory in the order rglob yields them: up to MaxFiles
\* different files
FileLists ==
    {fs \in UNION {[1..n -> FileUniverse] : n \in 0..MaxFiles} :
        \A i \in DOMAIN fs : \A j \in DOMAIN fs : i # j => fs[i] # fs[j]}

\* a directory of one text file
DirOfText(t) == [exists |-> TRUE, files |-> <<File("t.txt", ".txt", FALSE, <<t>>)>>]

\* the directories process_documents is run on
ChunkDirs ==
    {DirMissing, DirOfText(TextPaged)}
    \cup {[exists |-> TRUE, files |-> fs] : fs \in FileLists}
    \cup {DirOfText(t) : t \in Texts}

\* the (chunk_size, chunk_overlap) a DocumentProcessor is constructed with
ProcessorSizes ==
    {[chunk_size |-> 1, chunk_overlap |-> 0], [chunk_size |-> 2, chunk_overlap |-> 0],
     [chunk_size |-> 2, chunk_overlap |-> 1], [chunk_size |-> 3, chunk_overlap |-> 1],
     [chunk_size |-> 4, chunk_overlap |-> 0], [chunk_size |-> 4, chunk_overlap |-> 2]}

\* what `last` records of a process_documents call
ChunkObserved(op, size, overlap, chunks) ==
    [op |-> op, chunk_size |-> size, chunk_overlap |-> overlap, chunks |-> chunks]

ChunkInit ==
    /\ docsDir \in ChunkDirs
    /\ apiKey = ""
    /\ disk = NoDisk
    /\ mgr = [m \in Mgrs |-> NewManager]
    /\ everOk = [m \in Mgrs |-> FALSE]
    /\ trail = NoTrail
    /\ session = NoSessions
    /\ last = ChunkObserved("start", CHUNK_SIZE, CHUNK_OVERLAP, <<>>)

\* DocumentProcessor(chunk_size, chunk_overlap).process_documents(directory)
ProcessSized(p) ==
    /\ docsDir # DirOfText(TextPaged)   \* the long text is for the default sizes
    /\ last' = ChunkObserved("process", p.chunk_size, p.chunk_overlap,
                   process_documents_sized(docsDir, p.chunk_size, p.chunk_overlap))
    /\ UNCHANGED <<docsDir, apiKey, disk, mgr, everOk, trail, session>>

\* DocumentProcessor().process_documents(directory)
ProcessDefault ==
    /\ last' = ChunkObserved("process", CHUNK_SIZE, CHUNK_OVERLAP, process_documents(docsDir))
    /\ UNCHANGED <<docsDir, apiKey, disk, mgr, everOk, trail, session>>

ChunkNext ==
    \/ \E p \in ProcessorSizes : ProcessSized(p)
    \/ ProcessDefault

ChunkSpec == ChunkInit /\ [][ChunkNext]_vars

\* ------------------------------------------------------- the Streamlit app
\* Each browser session runs the script with its own st.session_state; every
\* session's RAGManager opens the collection config.COLLECTION_NAME under
\* config.VECTOR_DB_DIR, so `disk` is shared by all of them.
Sessions == {"s1", "s2"}

\* the most turns a chat history holds
MaxTurns == 4

\* the questions typed into the chat input (it never submits an empty one)
ChatQuestions == {<<"a">>, <<" ", "\t">>}

\* what a press of Initialize or Rebuild can meet: RAGManager() failing, or
\* a fault inside initialize
PressFaultPlans == {{}, {"construct"}, {"create_open"}, {"setup"}, {"llm_init"}}

\* what a question can meet
AskFaultPlans == {{}, {"search"}, {"llm_call"}}

\* the user turn and the assistant turn appended to chat_history
UserTurn(question) == [role |-> "user", content |-> question, sources |-> <<>>]

AssistantTurn(response) ==
    [role |-> "assistant", content |-> response.answer,
     sources |-> response.source_documents]

\* st.session_state after initialize_rag_system: the flag is set only when
\* initialize returned True, and nothing ever clears it
SessionAfterInitialize_flag_always(st, success) ==
    [st EXCEPT !.rag_manager = TRUE, !.initialized = TRUE]

SessionAfterInitialize(st, success) ==
    [st EXCEPT !.rag_manager = TRUE, !.initialized = @ \/ success]

\* the end of initialize_rag_system: the flag follows what initialize returned,
\* and an exception of initialize is caught
SessionOutcome(st, out) ==
    [st |-> SessionAfterInitialize(st, out.exc = None /\ out.val),
     out |-> Out(out.c, None, out.exc = None /\ out.val)]

\* initialize_rag_system(force_rebuild) of session s: the outcome of
\* initialize, or an exception of RAGManager() or of initialize, caught
initialize_rag_system(c0, st, s, force_rebuild, dir, key, F) ==
    IF ~st.rag_manager /\ "construct" \in F
    THEN [st |-> st, out |-> Out(Hit(c0, "construct"), None, FALSE)]
    ELSE SessionOutcome(st,
             initialize(IF st.rag_manager THEN c0
                        ELSE [c0 EXCEPT !.mgr[s] = NewManager],
                        s, force_rebuild, dir, key, F))

UiIdle(op, s) == Observed(op, s, FALSE, <<>>, Out(Ctx(NoDisk, <<>>), None, FALSE))

UiInit(S, keys) ==
    /\ docsDir \in {DirOne, DirEmpty}
    /\ apiKey \in keys
    /\ disk = NoDisk
    /\ mgr = [s \in S |-> NewManager]
    /\ everOk = [m \in Mgrs |-> FALSE]
    /\ trail = NoTrail
    /\ session = [s \in S |-> NewSession]
    /\ last = UiIdle("start", "s1")

\* the user presses "Initialize System"
PressInitialize(s, F) ==
    \E r \in {initialize_rag_system(Ctx(disk, mgr), session[s], s, FALSE,
                                    docsDir, apiKey, F)} :
        /\ F \subseteq r.out.c.hit
        /\ Len(r.out.c.disk.recs) <= MaxRecs
        /\ disk' = r.out.c.disk
        /\ mgr' = r.out.c.mgr
        /\ session' = [session EXCEPT ![s] = r.st]
        /\ last' = Observed("initialize", s, FALSE, <<>>, r.out)
        /\ UNCHANGED <<docsDir, apiKey, everOk, trail>>

\* the user presses "Rebuild Index": a warning when the flag is not set
PressRebuild(s, F) ==
    IF session[s].initialized
    THEN \E r \in {initialize_rag_system(Ctx(disk, mgr), session[s], s, TRUE,
                                         docsDir, apiKey, F)} :
             /\ F \subseteq r.out.c.hit
             /\ Len(r.out.c.disk.recs) <= MaxRecs
             /\ disk' = r.out.c.disk
             /\ mgr' = r.out.c.mgr
             /\ session' = [session EXCEPT ![s] = r.st]
             /\ last' = Observed("initialize", s, TRUE, <<>>, r.out)
             /\ UNCHANGED <<docsDir, apiKey, everOk, trail>>
    ELSE /\ F = {}
         /\ last' = UiIdle("warning", s)
         /\ UNCHANGED <<docsDir, apiKey, disk, mgr, everOk, trail, session>>

\* the user presses "Clear Chat"
PressClear(s) ==
    /\ session' = [session EXCEPT ![s].chat_history = <<>>]
    /\ last' = UiIdle("clear", s)
    /\ UNCHANGED <<docsDir, apiKey, disk, mgr, everOk, trail>>

\* the user submits a question and the script runs to its st.rerun()
Ask(s, question, F, text, turns) ==
    /\ session[s].initialized            \* the chat input is shown only then
    /\ Len(session[s].chat_history) + 2 <= turns
    /\ \E out \in {manager_query(Ctx(disk, mgr), s, question, F, text)} :
        /\ F \subseteq out.c.hit
        /\ disk' = out.c.disk
        /\ mgr' = out.c.mgr
        /\ session' = [session EXCEPT ![s].chat_history =
                           @ \o <<UserTurn(question), AssistantTurn(out.val)>>]
        /\ last' = Observed("query", s, FALSE, question, out)
        /\ UNCHANGED <<docsDir, apiKey, everOk, trail>>

\* the user submits a question and touches another widget while query runs:
\* Streamlit stops the script where the spinner closes, the user turn appended
\* and the assistant turn not
AskInterrupted(s, question, F, text, turns) ==
    /\ session[s].initialized
    /\ Len(session[s].chat_history) + 1 <= turns
    /\ \E out \in {manager_query(Ctx(disk, mgr), s, question, F, text)} :
        /\ F \subseteq out.c.hit
        /\ disk' = out.c.disk
        /\ mgr' = out.c.mgr
        /\ session' = [session EXCEPT ![s].chat_history =
                           Append(@, UserTurn(question))]
        /\ last' = Observed("interrupted", s, FALSE, question, out)
        /\ UNCHANGED <<docsDir, apiKey, everOk, trail>>

UiNextOf(S, turns) ==
    \/ \E s \in S, F \in PressFaultPlans : PressInitialize(s, F)
    \/ \E s \in S, F \in PressFaultPlans : PressRebuild(s, F)
    \/ \E s \in S : PressClear(s)
    \/ \E s \in S, q \in ChatQuestions, F \in AskFaultPlans, t \in LLMTexts :
           Ask(s, q, F, t, turns)
    \/ \E s \in S, q \in ChatQuestions, F \in AskFaultPlans, t \in LLMTexts :
           AskInterrupted(s, q, F, t, turns)

\* one browser session
UiNext == UiNextOf({"s1"}, MaxTurns)

UiSpec == UiInit({"s1"}, OPENAI_API_KEY_VALUES) /\ [][UiNext]_vars

\* two browser sessions without a credential, each asking one question before
\* it clears its chat
SharedNext == UiNextOf(Sessions, 2)

SharedSpec == UiInit(Sessions, {""}) /\ [][SharedNext]_vars

\* ------------------------------------------------------------------ claims
\* the faults whose exception ends initialize, and those the code swallows
EndingFaults == {"chunk", "create_open", "create_embed", "setup"}
SwallowedFaults == {"delete", "load_open", "load_count", "llm_init"}

\* C1: a query on a manager none of whose initialize calls has returned True
\* returns error "Not initialized" and no sources, makes no index call and no
\* backend call, and leaves the storage and the manager as they were.
C1_QueryBeforeInitialize ==
    [][(last'.op = "query" /\ ~everOk[last'.m]) =>
          /\ last'.result.error = "Not initialized"
          /\ last'.result.source_documents = <<>>
          /\ last'.calls = <<>>
          /\ ~last'.raised
          /\ mgr' = mgr /\ disk' = disk]_vars

\* C1's case: the query follows an initialize that failed after it had built an engine
C1_Witness ==
    /\ last.op = "query" /\ ~everOk[last.m]
    /\ mgr[last.m].rag_engine.exists
    /\ last.question # <<>>

\* C2 as stated: initialize never raises, and returns False whenever chunking,
\* deletion, load, creation or engine construction/setup raises.
C2_AnyFaultReturnsFalse ==
    last.op = "initialize" => (~last.raised /\ (last.hit # {} => ~last.ret))

\* C2, amended: initialize never raises; it returns False when chunking,
\* collection creation or the chain setup raises. An exception while deleting,
\* loading or constructing the LLM client is swallowed where it occurs.
C2_InitializeNeverRaises ==
    last.op = "initialize" =>
        /\ ~last.raised
        /\ (last.hit \cap EndingFaults # {} => ~last.ret)

\* C2's case: the deletion raised and was ignored, then the embedding raised
C2_Witness ==
    /\ last.op = "initialize" /\ ~last.ret
    /\ "delete" \in last.hit /\ "create_embed" \in last.hit

\* C3 as stated, on calls that meet no fault: after initialize(force_rebuild=True)
\* has returned True the active collection holds exactly this run's chunks.
C3_RebuildReplacesCollection ==
    (last.op = "initialize" /\ last.force /\ last.ret /\ last.hit = {}) =>
        get_collection_count(disk, mgr, last.m) = Len(process_documents(docsDir))

\* the call `name` was made
Made(calls, name) == \E i \in DOMAIN calls : calls[i] = name

\* C4: initialize(force_rebuild=False) on storage that holds a non-empty collection
\* (the load and the chain setup raising nothing) calls neither the chunker nor
\* create_vectorstore, leaves the persisted records as they were, returns True
\* and leaves the manager Ready on the existing collection.
C4_LoadExistingNoReembed ==
    [][(/\ last'.op = "initialize" /\ ~last'.force
        /\ disk.exists /\ Len(disk.recs) > 0
        /\ last'.hit \cap {"load_open", "load_count", "setup"} = {}) =>
          /\ ~Made(last'.calls, "chunk")
          /\ ~Made(last'.calls, "create")
          /\ disk' = disk
          /\ last'.ret
          /\ mgr'[last'.m].is_initialized
          /\ mgr'[last'.m].rag_engine.exists
          /\ mgr'[last'.m].vectorstore = "live"
          /\ get_collection_count(disk', mgr', last'.m) = Len(disk.recs)]_vars

\* C4's case: the load alone makes the manager Ready on the persisted collection
C4_Witness ==
    /\ last.op = "initialize" /\ ~last.force /\ last.ret
    /\ last.calls = <<"load", "engine">>
    /\ Len(disk.recs) > 0

\* C5: when the chunker yields no fragment, initialize returns False, never calls
\* create_vectorstore and adds no record; with force_rebuild=True nothing has been
\* deleted; with force_rebuild=False the chunker ran only because no non-empty
\* collection could be loaded.
C5_ZeroFragments ==
    [][(/\ last'.op = "initialize"
        /\ Made(last'.calls, "chunk") /\ "chunk" \notin last'.hit
        /\ process_documents(docsDir) = <<>>) =>
          /\ ~last'.ret /\ ~last'.raised
          /\ ~Made(last'.calls, "create")
          /\ disk'.recs = disk.recs
          /\ (last'.force => (~Made(last'.calls, "delete") /\ disk' = disk /\ mgr' = mgr))
          /\ (~last'.force =>
                (Len(disk.recs) = 0 \/ last'.hit \cap {"load_open", "load_count"} # {}))]_vars

\* C5's case: a rebuild of a loaded, non-empty collection finds no document
C5_Witness ==
    /\ last.op = "initialize" /\ last.force /\ ~last.ret
    /\ last.calls = <<"chunk">> /\ last.hit = {}
    /\ mgr[last.m].vectorstore = "live" /\ Len(disk.recs) > 0

\* C6 as stated: a query that meets an exception in retrieval or generation lets
\* none escape and returns an answer text, no sources and the exception's
\* message as its error.
C6_QueryFaultsBecomeErrors ==
    (last.op = "query" /\ last.hit # {}) =>
        /\ ~last.raised
        /\ last.result.answer # <<>>
        /\ last.result.source_documents = <<>>
        /\ \E f \in last.hit : last.result.error = Msg(f)

\* C7 as stated: when the index search raises, the result's error is the
\* exception's message; error "No relevant documents found" is returned only
\* when a search was made, raised nothing and gave no fragment.
C7_RetrievalFaultIsNotGap ==
    last.op = "query" =>
        /\ ("search" \in last.hit => last.result.error = Msg("search"))
        /\ (last.result.error = "No relevant documents found" =>
                (Made(last.calls, "search") /\ last.hit = {}))

\* the manager of the last call was Ready, so its query went to the engine
EngineAsked == mgr[last.m].is_initialized /\ mgr[last.m].rag_engine.exists

\* a question of whitespace alone (none at all included)
OnlyWhitespace(q) == \A i \in DOMAIN q : q[i] \in {" ", "\t", "\n"}

\* C8 as stated: a blank question gets error "empty question"
C8_BlankQuestionLowerCase ==
    (last.op = "query" /\ EngineAsked /\ OnlyWhitespace(last.question)) =>
        last.result.error = "empty question"

\* C8, amended: in either mode a blank question gets the fixed guidance message,
\* no sources and error "Empty question", and no index search or backend call
\* is made.
C8_BlankQuestion ==
    (last.op = "query" /\ EngineAsked /\ OnlyWhitespace(last.question)) =>
        /\ last.result.answer = <<"Please provide a valid question.">>
        /\ last.result.source_documents = <<>>
        /\ last.result.error = "Empty question"
        /\ last.calls = <<>>
        /\ ~last.raised

\* C8's case: a whitespace-only question to an engine in generative mode
C8_Witness ==
    /\ last.op = "query" /\ EngineAsked
    /\ last.question = <<" ", "\t">>
    /\ mgr[last.m].rag_engine.llm /\ mgr[last.m].rag_engine.qa_chain = "live"

\* the engine's retrieval returned no fragment
RetrievedNothing == last.retrieval = <<<<>>>>

\* C9 as stated: an empty retrieval gets error "no relevant documents found"
C9_NothingFoundLowerCase ==
    (last.op = "query" /\ RetrievedNothing) =>
        last.result.error = "no relevant documents found"

\* C9, amended: in either mode a non-blank question whose retrieval returns no
\* fragment gets the fixed nothing-found message, no sources and error
\* "No relevant documents found", and the generative backend is not called.
C9_NothingFound ==
    (last.op = "query" /\ RetrievedNothing) =>
        /\ ~OnlyWhitespace(last.question)
        /\ last.result.answer =
             <<"I couldn't find any relevant information in the knowledge base for your question.">>
        /\ last.result.source_documents = <<>>
        /\ last.result.error = "No relevant documents found"
        /\ ~Made(last.calls, "llm") /\ ~Made(last.calls, "chain_search")
        /\ ~last.raised

\* C9's case: an engine in generative mode searches an empty collection
C9_Witness ==
    /\ last.op = "query" /\ RetrievedNothing
    /\ Made(last.calls, "search") /\ last.hit = {}
    /\ mgr[last.m].rag_engine.llm /\ mgr[last.m].rag_engine.qa_chain # "none"

\* the first PREVIEW_LEN characters of a text
Preview(t) == [j \in 1..Min(Len(t), PREVIEW_LEN) |-> t[j]]

RECURSIVE ExpectedExcerpts(_, _)
ExpectedExcerpts(fs, i) ==
    IF i = 0 THEN <<>>
    ELSE ExpectedExcerpts(fs, i - 1)
         \o <<"**Excerpt ", IntToStr(i), ":**\n">> \o Preview(fs[i].page_content)
         \o <<"...\n\n">>

\* C10: an engine built without a credential answers fragments F1..Fk (k >= 1)
\* with the preamble, one "Excerpt i" block per fragment in retrieval order
\* holding the first 300 characters of its text, then the footer; the sources
\* are F1..Fk in that order, the error is None and no backend call is made.
C10_ExtractiveAnswer ==
    (/\ last.op = "query" /\ last.retrieval # <<>>
     /\ ~mgr[last.m].rag_engine.use_openai) =>
        LET fs == [i \in 1..Len(last.retrieval[1]) |-> last.retrieval[1][i].doc]
        IN  Len(fs) >= 1 =>
              /\ last.result.answer =
                   <<"Based on the knowledge base, here are the most relevant excerpts:\n\n">>
                   \o ExpectedExcerpts(fs, Len(fs))
                   \o <<"\n*Note: Set up an OpenAI API key in the .env file to get AI-generated answers.*">>
              /\ last.result.source_documents = fs
              /\ last.result.error = None
              /\ ~Made(last.calls, "llm") /\ ~Made(last.calls, "chain_search")

\* C10's case: three fragments retrieved, one of them longer than the preview
C10_Witness ==
    /\ last.op = "query" /\ ~mgr[last.m].rag_engine.use_openai
    /\ last.result.error = None
    /\ Len(last.result.source_documents) = TOP_K_RESULTS
    /\ \E i \in 1..Len(last.result.source_documents) :
           Len(last.result.source_documents[i].page_content) > PREVIEW_LEN

\* how many times a call was made
Times(calls, name) == Cardinality({i \in DOMAIN calls : calls[i] = name})

\* the engine holds a backend client and a chain: its queries take the
\* generative branch
Generative(e) == e.llm /\ e.qa_chain # "none"

\* a query that was not blank and whose retrieval found at least one fragment
AnsweredFromFragments ==
    /\ last.op = "query" /\ ~OnlyWhitespace(last.question)
    /\ last.retrieval # <<>> /\ last.retrieval # <<<<>>>>

C12_SourcesAndScores ==
    (last.op = "query" /\ ~last.raised /\ last.result.error = None) =>
        /\ last.retrieval # <<>>
        /\ LET pairs == last.retrieval[1]
               srcs == last.result.source_documents
               scs == last.result.relevance_scores
           IN  /\ Len(pairs) = Min(TOP_K_RESULTS, Len(disk.recs)) /\ Len(pairs) >= 1
               /\ last.result.has_scores
               /\ Len(srcs) = Len(pairs) /\ Len(scs) = Len(srcs)
               /\ \A i \in 1..Len(pairs) :
                      /\ srcs[i] = pairs[i].doc
                      /\ scs[i] = pairs[i].score
                      /\ scs[i] = Distance(last.question, srcs[i].page_content)
               /\ \A i \in 1..Len(pairs) : \A j \in 1..Len(pairs) : i <= j => scs[i] <= scs[j]

\* C12's case: a generative answer whose sources are the TOP_K_RESULTS nearest
\* of a larger collection, with scores that differ
C12_Witness ==
    /\ last.op = "query" /\ last.result.error = None
    /\ Generative(mgr[last.m].rag_engine) /\ last.generated # <<>>
    /\ Len(disk.recs) > TOP_K_RESULTS
    /\ Len(last.result.source_documents) = TOP_K_RESULTS
    /\ last.result.relevance_scores[1] < last.result.relevance_scores[TOP_K_RESULTS]

\* C13 as stated: the credential at construction alone decides the mode, so an
\* engine answers a non-blank question with retrieved fragments through the
\* backend exactly when it was constructed with a non-empty credential.
C13_ModeFromCredential ==
    (AnsweredFromFragments /\ mgr[last.m].rag_engine.exists) =>
        (Made(last.calls, "invoke") <=> mgr[last.m].rag_engine.use_openai)

\* C13: no query changes the engine (nor anything else of the manager), and
\* the branch a non-blank question with retrieved fragments takes is fixed by
\* what construction and setup left: the backend is invoked exactly when the
\* engine holds a client and a chain, which needs a credential at construction;
\* an engine constructed without one answers with excerpts and no backend call.
C13_ModeFixedAtSetup ==
    [][last'.op = "query" =>
         /\ mgr' = mgr
         /\ LET e == mgr[last'.m].rag_engine
            IN  /\ Generative(e) => e.use_openai
                /\ AnsweredFromFragments' =>
                     /\ Made(last'.calls, "invoke") <=> Generative(e)
                     /\ ~e.use_openai =>
                          /\ ~Made(last'.calls, "llm")
                          /\ last'.result.error = None
                          /\ last'.generated = <<>>]_vars

\* C13's case: an engine constructed with a credential whose client could not
\* be built answers a question with excerpts, no backend call and no error
C13_Witness ==
    /\ AnsweredFromFragments
    /\ mgr[last.m].rag_engine.use_openai /\ ~mgr[last.m].rag_engine.llm
    /\ ~Made(last.calls, "invoke") /\ last.result.error = None

\* C14: whatever the storage and the manager held before, once
\* create_vectorstore(documents) has returned for a non-empty list,
\* get_collection_count() is len(documents).
C14_CreateThenCount ==
    (last.op = "create" /\ ~last.raised /\ last.docs # <<>>) =>
        get_collection_count(disk, mgr, last.m) = Len(last.docs)

\* C15: a new VectorStoreManager whose load_vectorstore meets no fault, after a
\* create_vectorstore(documents) that returned and no deletion since, gets a
\* store (not None) and get_collection_count() is then len(documents).
C15_RoundTripAcrossRestart ==
    [][(/\ last'.op = "load" /\ last'.hit = {}
        /\ ~trail.opened[last'.m] /\ trail.created # <<>>) =>
           /\ last'.found
           /\ get_collection_count(disk', mgr', last'.m) = trail.created[1]]_vars

\* C16: once delete_collection() has returned, and until the next create, the
\* storage holds no record of the collection, every load_vectorstore reports
\* None and get_collection_count() is 0.
C16_DeletedStaysGone ==
    trail.deleted =>
        /\ disk.recs = <<>>
        /\ \A m \in Mgrs : get_collection_count(disk, mgr, m) = 0
        /\ last.op = "load" => ~last.found

\* the storage as a load finds it is unreadable: opening it or counting it raises
CorruptOnLoad == last.hit \cap {"load_open", "load_count"} # {}

\* C17: load_vectorstore returns None only when the storage holds no record of
\* the collection; when the store raises on load, the exception leaves
\* load_vectorstore.
C17_CorruptStorePropagates ==
    last.op = "load" =>
        IF CorruptOnLoad THEN last.raised
        ELSE ~last.raised /\ (~last.found <=> disk.recs = <<>>)

\* C18: a VectorStoreManager that has called neither create_vectorstore nor
\* load_vectorstore since it was constructed, or since its latest
\* delete_collection returned, answers similarity_search and
\* similarity_search_with_score with an empty list for every query and k, and
\* get_collection_count() with 0; none of the three raises, asks the storage,
\* or changes the manager or the storage.
C18_NothingLoaded ==
    [][(/\ last'.op \in {"search", "search_with_score", "count"}
        /\ ~trail.opened[last'.m]) =>
           /\ ~last'.raised
           /\ last'.results = <<>>
           /\ last'.count = 0
           /\ last'.calls = <<>>
           /\ mgr' = mgr /\ disk' = disk]_vars

\* C18's case: the storage holds records, the manager's delete_collection has
\* returned without its having loaded them, and a search finds nothing
C18_Witness ==
    /\ last.op \in {"search", "search_with_score"} /\ last.k = TOP_K_RESULTS
    /\ ~OnlyWhitespace(last.question)
    /\ ~trail.opened[last.m] /\ trail.deleted
    /\ disk.recs # <<>>
    /\ last.results = <<>>

\* the files process_documents meets under the directory
FilesMet == IF docsDir.exists THEN docsDir.files ELSE <<>>

\* a file whose suffix is a supported one, in either case
HasSupportedSuffix(f) ==
    f.ext \in {".pdf", ".txt", ".md", ".docx", ".PDF", ".TXT", ".MD", ".DOCX"}

\* the fragments a file gives when it is the only one: those of its pages, or
\* none when its suffix is unsupported or its loader raises
FragmentsAlone(f, size, overlap) ==
    IF HasSupportedSuffix(f) /\ ~f.loader_fails
    THEN chunk_documents_sized([i \in 1..Len(f.texts) |-> Doc(f.texts[i], f.name)],
                               size, overlap)
    ELSE <<>>

\* C19: whatever files the directory holds, process_documents returns, file by
\* file in the order they are met, the fragments each supported file that
\* loads gives alone; a supported file whose loader raises and a file with an
\* unsupported suffix give none and take nothing from the others.
C19_PerFileIsolation ==
    last.op = "process" =>
        /\ last.chunks =
             Flatten([i \in 1..Len(FilesMet) |->
                        FragmentsAlone(FilesMet[i], last.chunk_size, last.chunk_overlap)])
        /\ \A i \in 1..Len(last.chunks) :
               \E j \in 1..Len(FilesMet) :
                   /\ FilesMet[j].name = last.chunks[i].source
                   /\ HasSupportedSuffix(FilesMet[j]) /\ ~FilesMet[j].loader_fails

\* C19's case: a file whose loader raises and a file with an unsupported
\* suffix come before a file that loads, whose fragments are returned
C19_Witness ==
    /\ last.op = "process" /\ Len(FilesMet) = 3
    /\ HasSupportedSuffix(FilesMet[1]) /\ FilesMet[1].loader_fails
    /\ ~HasSupportedSuffix(FilesMet[2])
    /\ HasSupportedSuffix(FilesMet[3]) /\ ~FilesMet[3].loader_fails
    /\ last.chunks # <<>>
    /\ \A i \in 1..Len(last.chunks) : last.chunks[i].source = FilesMet[3].name

\* piece is a run of consecutive characters of text
IsPieceOf(piece, text) ==
    \E i \in 1..(Len(text) - Len(piece) + 1) : SubSeq(text, i, i + Len(piece) - 1) = piece

\* where the text has a paragraph break, two line breaks in a row
ParagraphBreaks(t) == {i \in 1..(Len(t) - 1) : t[i] = "\n" /\ t[i + 1] = "\n"}

\* text without the whitespace at its ends
Trimmed(t) ==
    LET inked == {i \in 1..Len(t) : t[i] \notin {" ", "\n", "\t"}}
    IN  IF inked = {} THEN <<>>
        ELSE SubSeq(t, CHOOSE i \in inked : \A j \in inked : i <= j,
                       CHOOSE i \in inked : \A j \in inked : j <= i)

\* C20: every fragment process_documents returns has at least one and at most
\* chunk_size characters and is a run of consecutive characters of a text of
\* its source file; and the coarsest separator cuts first: a text longer than
\* chunk_size whose one paragraph break leaves a shorter piece on both sides
\* is cut at that break when there is no overlap.
C20_FragmentsWithinChunkSize ==
    last.op = "process" =>
        /\ \A i \in 1..Len(last.chunks) :
               /\ Len(last.chunks[i].page_content) >= 1
               /\ Len(last.chunks[i].page_content) <= last.chunk_size
               /\ \E j \in 1..Len(FilesMet) :
                      /\ FilesMet[j].name = last.chunks[i].source
                      /\ \E k \in 1..Len(FilesMet[j].texts) :
                             IsPieceOf(last.chunks[i].page_content, FilesMet[j].texts[k])
        /\ (Len(FilesMet) = 1 /\ last.chunk_overlap = 0) =>
               \A k \in 1..Len(FilesMet[1].texts) :
                   LET t == FilesMet[1].texts[k]
                   IN  (/\ docsDir = DirOfText(t) /\ Len(t) > last.chunk_size
                        /\ Cardinality(ParagraphBreaks(t)) = 1) =>
                           LET p == CHOOSE i \in ParagraphBreaks(t) : TRUE
                               before == SubSeq(t, 1, p - 1)
                               after == SubSeq(t, p, Len(t))
                           IN  (/\ Len(before) < last.chunk_size
                                /\ Len(after) < last.chunk_size
                                /\ Trimmed(before) # <<>> /\ Trimmed(after) # <<>>) =>
                                   last.chunks = <<Doc(Trimmed(before), "t.txt"),
                                                   Doc(Trimmed(after), "t.txt")>>

\* C20's case: a text with no separator at all, longer than chunk_size, is cut
\* at character boundaries into fragments of chunk_size characters
C20_Witness ==
    /\ last.op = "process" /\ Len(FilesMet) = 1 /\ Len(FilesMet[1].texts) = 1
    /\ \A i \in 1..Len(FilesMet[1].texts[1]) : FilesMet[1].texts[1][i] = "a"
    /\ Len(FilesMet[1].texts[1]) > last.chunk_size
    /\ Len(last.chunks) >= 2
    /\ Len(last.chunks[1].page_content) = last.chunk_size

\* the files under the directory that are supported and load
GoodFiles ==
    SelectSeq(FilesMet, LAMBDA f : HasSupportedSuffix(f) /\ ~f.loader_fails)

\* every text process_documents chunks is shorter than chunk_size
AllTextsShort ==
    \A i \in 1..Len(GoodFiles) : \A k \in 1..Len(GoodFiles[i].texts) :
        Len(GoodFiles[i].texts[k]) < last.chunk_size

\* the texts of the good files in the order they are chunked, each with its file
TextsChunked ==
    Flatten([i \in 1..Len(GoodFiles) |->
               [k \in 1..Len(GoodFiles[i].texts) |->
                  Doc(GoodFiles[i].texts[k], GoodFiles[i].name)]])

\* C21 as stated: each text shorter than chunk_size comes back as one fragment
\* with that very text.
C21_ShortTextUnchanged ==
    (last.op = "process" /\ AllTextsShort) => last.chunks = TextsChunked

\* C21: each text shorter than chunk_size comes back as at most one fragment:
\* the text without the whitespace at its ends, or no fragment at all when the
\* text is empty or whitespace only; a text with no whitespace at its ends
\* comes back as exactly one fragment equal to it.
C21_ShortTextOneFragment ==
    (last.op = "process" /\ AllTextsShort) =>
        /\ last.chunks =
             Flatten([i \in 1..Len(TextsChunked) |->
                        IF Trimmed(TextsChunked[i].page_content) = <<>> THEN <<>>
                        ELSE <<Doc(Trimmed(TextsChunked[i].page_content),
                                   TextsChunked[i].source)>>])
        /\ (\A i \in 1..Len(TextsChunked) :
               /\ TextsChunked[i].page_content # <<>>
               /\ Trimmed(TextsChunked[i].page_content) = TextsChunked[i].page_content)
             => last.chunks = TextsChunked

\* C21's case: a text shorter than chunk_size with whitespace at an end and in
\* the middle comes back as one fragment, shorter than the text
C21_Witness ==
    /\ last.op = "process" /\ AllTextsShort /\ Len(TextsChunked) = 1
    /\ Len(last.chunks) = 1
    /\ Len(last.chunks[1].page_content) < Len(TextsChunked[1].page_content)
    /\ \E i \in 1..Len(last.chunks[1].page_content) :
           last.chunks[1].page_content[i] \in {" ", "\n"}

\* C22: initialize returns True exactly when it ends with the manager Ready
\* and an engine it has just constructed, bound to the loaded collection; a
\* Ready manager stays Ready through every later initialize and query; an
\* initialize that returns False on a manager that is not Ready leaves it so.
C22_ManagerStateMachine ==
    [][/\ last'.op = "initialize" =>
            /\ last'.ret <=> (/\ mgr'[last'.m].is_initialized
                              /\ Made(last'.calls, "engine")
                              /\ mgr'[last'.m].rag_engine.exists
                              /\ mgr'[last'.m].vectorstore = "live")
            /\ mgr[last'.m].is_initialized => mgr'[last'.m].is_initialized
            /\ (~mgr[last'.m].is_initialized /\ ~last'.ret) =>
                   ~mgr'[last'.m].is_initialized
       /\ last'.op = "query" =>
            mgr'[last'.m].is_initialized = mgr[last'.m].is_initialized]_vars

\* C24: a Ready manager has an engine and a loaded collection that holds at
\* least one record.
C24_ReadyHasIndex ==
    \A m \in Mgrs :
        mgr[m].is_initialized =>
            /\ mgr[m].rag_engine.exists
            /\ mgr[m].vectorstore = "live"
            /\ Len(disk.recs) >= 1

\* C25: an initialize that returns False leaves the persisted records, the
\* manager's loaded collection, its engine and its Ready flag as they were.
C25_FailedInitializeIsAtomic ==
    [][(last'.op = "initialize" /\ ~last'.ret) =>
           /\ disk'.recs = disk.recs
           /\ mgr' = mgr]_vars

\* C23: with several UI sessions running, no two managers are bound to the
\* same persisted collection at once, and an initialize or rebuild run by one
\* session never deletes or changes the collection (its records and the
\* handle on it) that another session's Ready manager is querying.
C23_SessionsDoNotShareCollection ==
    [][/\ \A s, t \in DOMAIN mgr' :
              (s # t /\ mgr'[s].vectorstore = "live") => mgr'[t].vectorstore # "live"
       /\ \A s \in DOMAIN mgr :
              (last'.op = "initialize" /\ s # last'.m /\ mgr[s].is_initialized) =>
                  /\ disk'.recs = disk.recs
                  /\ mgr'[s] = mgr[s]]_vars

\* the turns of a chat history alternate, a user turn first
Alternates(h) ==
    \A i \in DOMAIN h : h[i].role = (IF i % 2 = 1 THEN "user" ELSE "assistant")

\* C26: in a UI session the flag 'initialized' being true implies that the
\* session's rag_manager is non-null and Ready; a question submitted through
\* the chat input never yields the "Not initialized" result; and Rebuild calls
\* initialize(force_rebuild=True) only when the flag is true.
C26_FlagImpliesReady ==
    [][/\ \A s \in DOMAIN session' :
              session'[s].initialized =>
                  /\ session'[s].rag_manager
                  /\ mgr'[s].is_initialized
       /\ last'.op \in {"query", "interrupted"} =>
              /\ ~last'.raised
              /\ last'.result.error # "Not initialized"
              /\ last'.result.answer # NOT_INITIALIZED_ANSWER
       /\ (last'.op = "initialize" /\ last'.force) =>
              session[last'.m].initialized]_vars

\* a question submitted through the chat input of an initialized session was
\* answered and both turns are in the history
C26_Witness ==
    /\ last.op = "query"
    /\ session[last.m].initialized
    /\ Len(session[last.m].chat_history) >= 2
    /\ last.result.answer # <<>>

\* C27: the chat history is always an alternating sequence of turns that
\* starts with a user turn and has even length; each submitted question
\* appends exactly one user turn with the question followed by exactly one
\* assistant turn holding that query's answer and sources; Clear Chat History
\* resets it to empty and changes neither the manager nor the flag.
C27_ChatHistoryPaired ==
    [][/\ \A s \in DOMAIN session' :
              /\ Alternates(session'[s].chat_history)
              /\ Len(session'[s].chat_history) % 2 = 0
       /\ last'.op \in {"query", "interrupted"} =>
              session'[last'.m].chat_history =
                  session[last'.m].chat_history \o
                      <<[role |-> "user", content |-> last'.question, sources |-> <<>>],
                        [role |-> "assistant", content |-> last'.result.answer,
                         sources |-> last'.result.source_documents]>>
       /\ last'.op = "clear" =>
              /\ session'[last'.m].chat_history = <<>>
              /\ session'[last'.m].initialized = session[last'.m].initialized
              /\ session'[last'.m].rag_manager = session[last'.m].rag_manager
              /\ mgr' = mgr
              /\ disk' = disk]_vars

====
